---- MODULE Spec2Model ----
(***************************************************************************)
(* Chunked multipart upload orchestrator of file-service.                  *)
(*                                                                         *)
(* Two drivers of the same remote protocol are modelled:                   *)
(*   - ModulesComponent (upload.service.ts 240-499): sequential waves with *)
(*     per-part retries, pause / resume / abort controls;                  *)
(*   - UploadService (upload.service.ts 28-226): parallel waves, no retry. *)
(* JavaScript is single threaded: one action is the code that runs from    *)
(* one await (an HTTP response, a timer) to the next one.                  *)
(* The remote session (not part of the repository) is the environment: it  *)
(* remembers the part numbers whose receipts it was sent, offers only      *)
(* parts it has not seen confirmed, and reports isComplete when it has     *)
(* seen them all.  Any request may fail.                                   *)
(***************************************************************************)
EXTENDS Integers, Sequences, FiniteSets, TLC

\* ---------------------------------------------------------------- bounds
MaxCalls == 4         \* calls the caller makes (select, start, pause, resume, abort)
MaxRuns == 2          \* invocations of uploadFile (initiate calls) per behaviour
MaxFileSize == 2      \* file.size and partSizeBytes range over 1..MaxFileSize bytes
MaxTime == 2          \* Date.now() ranges over 0..MaxTime
MaxSplitSize == 6     \* splitFileIntoChunks on its own: sizes 1..MaxSplitSize
MaxTrackedSize == 3    \* uploadedSize handed to a progress tracker: 0..3
MaxPlainFileSize == 3 \* file.size of an upload the caller leaves alone: 0..3

\* ------------------------------------------------------ program constants
maxRetries == 3

\* (now - this.lastUpdateTime) / 1000, upload.service.ts 172
MsPerSecond == 1000

\* An optional value: <<>> is null / undefined, <<x>> is x.
Null == <<>>
Some(x) == <<x>>

Ids == 1..MaxRuns
FileSizes == 1..MaxFileSize
PartSizes == 1..MaxFileSize
\* partSizeBytes of a response is a number: zero and a negative one are numbers too
BadPartSizes == {-1, 0}

Min(a, b) == IF a <= b THEN a ELSE b

\* Math.ceil(a / b) for a >= 0, b > 0
Ceil(a, b) == (a + b - 1) \div b

PartNumbers(rs) == {rs[k].partNumber : k \in DOMAIN rs}

\* ------------------------------------------------- FileUploadService.uploadPart
\* A string is a sequence of characters; Q is the double quote character.
Q == "q"

\* etag.replace(/^"(.*)"$/, '$1')
StripQuotes(s) ==
  IF Len(s) >= 2 /\ s[1] = Q /\ s[Len(s)] = Q
    THEN SubSeq(s, 2, Len(s) - 1)
    ELSE s

\* The responses a PUT to a presigned URL can produce: a transport failure, or a
\* transport success whose ETag header is absent (Null) or a string.
ETagHeaders == {Null, Some(<<>>), Some(<<Q, "e", Q>>), Some(<<"e">>)}
PutResponses ==
  {[ok |-> FALSE, header |-> Null]} \cup {[ok |-> TRUE, header |-> h] : h \in ETagHeaders}

\* uploadPart(url, blob): the observable errors, or emits {etag}.
uploadPart(resp) ==
  IF ~resp.ok THEN [ok |-> FALSE, etag |-> <<>>]
  ELSE IF resp.header = Null \/ resp.header[1] = <<>>      \* if (!etag) throw
    THEN [ok |-> FALSE, etag |-> <<>>]
  ELSE [ok |-> TRUE, etag |-> StripQuotes(resp.header[1])]

\* videos.service.ts declares FileUploadService once more; its uploadPart is
\* http.put<{ etag: string }>(url, blob): the observable errors on a transport
\* failure and otherwise emits the parsed response body, whatever it is.  A body is
\* Null (empty), or Some of an object whose etag is Null (absent) or Some(string).
Bodies ==
  {Null, Some([etag |-> Null]), Some([etag |-> Some(<<"e">>)]),
   Some([etag |-> Some(<<Q, "e", Q>>)])}

\* An ETag header that consists of a pair of quote characters, and the headers
\* with it.
QuotesOnly == Some(<<Q, Q>>)

AnyETagHeaders == ETagHeaders \cup {QuotesOnly}

VideosPutResponses ==
  [ok : BOOLEAN, header : AnyETagHeaders, body : Bodies]

videos_uploadPart(resp) ==
  IF ~resp.ok THEN [ok |-> FALSE, value |-> Null]
  ELSE [ok |-> TRUE, value |-> resp.body]

\* ------------------------------------------------------------------ state
VARIABLES
  uploading,      \* ModulesComponent.uploading
  progress,       \* ModulesComponent.progress
  errorMessage,   \* ModulesComponent.errorMessage (Null or Some(message))
  isPaused,       \* ModulesComponent.isPaused
  selectedFile,   \* ModulesComponent.selectedFile (Null or Some(file.size))
  uploadState,    \* ModulesComponent.uploadState (Null or Some(record))
  inv,            \* the locals and position of each invocation of uploadFile
  abortPending,   \* caller abortUpload() calls awaiting their response, per uploadId
  srv,            \* the remote sessions: totalParts and confirmed part numbers
  abortReqs,      \* history: abort requests issued per uploadId, by caller and by loop
  aborted,        \* history: uploadIds whose caller abortUpload() completed while a
                  \* wave of that session was in flight
  lastReq,        \* history: the request issued last
  lastRet,        \* history: the handler that returned last, and how
  calls,          \* history: the number of calls the caller has made
  svc,            \* UploadService: its fields and the locals of its uploadFile
  clock,          \* the latest value Date.now() has returned
  put,            \* history: the last PUT response handed to uploadPart directly,
                  \* and what either FileUploadService.uploadPart made of it
  chunked,        \* history: the last (file.size, partSizeBytes) split directly:
                  \* the chunks of splitFileIntoChunks, the slices of uploadBatch
  tracker         \* the progress trackers driven directly: the fields of UploadService
                  \* that calculateProgress uses, and an UploadProgressComponent

vars == <<uploading, progress, errorMessage, isPaused, selectedFile, uploadState,
          inv, abortPending, srv, abortReqs, aborted, lastReq, lastRet, calls, svc, clock,
          put, chunked, tracker>>

pureVars == <<put, chunked, tracker>>

compVars == <<uploading, progress, errorMessage, isPaused, selectedFile, uploadState>>

svcVars == <<svc, clock>>

\* UploadService: lastUpdateTime and lastUploadedSize (29-30) and the locals of the
\* one invocation of uploadFile.  A size is a pair <<numerator, denominator>>:
\* uploadedSize is a quotient (133).  results holds, per offered part, the
\* status of its promise and its receipt.  onProgress is the progress passed to the callback
\* last.  waves (the waves that returned a receipt, saturating at 2) is history.
IdleSvc ==
  [pc |-> "idle", file |-> 0, uploadId |-> 0, partSizeBytes |-> 0, chunks |-> <<>>,
   presignedUrls |-> <<>>, results |-> <<>>, prevBatchETags |-> <<>>,
   lastUpdateTime |-> 0, lastUploadedSize |-> <<0, 1>>, onProgress |-> Null,
   waves |-> 0]

\* The locals of one invocation of ModulesComponent.uploadFile.  uploadId 0 is
\* undefined.  failedAll (the parts of the current wave that failed every attempt),
\* lateOk (a part of the current wave succeeded on its last allowed attempt) and
\* exhausted (a part of some wave of the run failed every attempt) are history.
\* delay is the setTimeout delay (ms) of the backoff that is running or that
\* preceded the attempt under way; 0 when the attempt was made without a wait.
IdleInv ==
  [pc |-> "idle", file |-> 0, uploadId |-> 0, partSizeBytes |-> 0,
   presignedUrls |-> <<>>, idx |-> 0, retryCount |-> 0,
   currentBatchETags |-> <<>>, allUploadedETags |-> <<>>,
   failedAll |-> 0, lateOk |-> FALSE, exhausted |-> FALSE, delay |-> 0]

DoneInv == [IdleInv EXCEPT !.pc = "done"]

NoReq ==
  [kind |-> "none", src |-> "none", inv |-> 0, uploadId |-> 0, parts |-> <<>>,
   paused |-> FALSE, afterWave |-> FALSE, postAbort |-> FALSE,
   via |-> "none", prevId |-> 0, wasPaused |-> FALSE]

\* What an uploadBatch call did (history): the parts it was given, the parts it
\* called uploadPart for, the parts it found no chunk for, the receipts it returned,
\* the part uploads still unsettled when it returned.
NoBatch ==
  [requested |-> 0, attempted |-> 0, noChunk |-> 0, receipts |-> 0, failedAll |-> 0,
   lateOk |-> FALSE, unsettled |-> 0]

NoRet ==
  [op |-> "none", inv |-> 0, outcome |-> "none", failed |-> FALSE,
   abortIssued |-> FALSE, errorSet |-> FALSE, reqOk |-> TRUE, batch |-> NoBatch]

NoPut ==
  [applied |-> FALSE, response |-> [ok |-> FALSE, header |-> Null, body |-> Null],
   result |-> [ok |-> FALSE, etag |-> <<>>],
   videos |-> [ok |-> FALSE, value |-> Null]]

NoChunked ==
  [applied |-> FALSE, size |-> 0, partSizeBytes |-> 0, chunks |-> <<>>, slices |-> <<>>]

\* What a progress computation did (history): whether it ran, whether it reported
\* to its caller, the byte delta, the elapsed milliseconds, the remaining size, the
\* timeRemaining it left.
NoObservation ==
  [applied |-> FALSE, emitted |-> FALSE, sizeDiff |-> 0, timeDiff |-> 0,
   remainingSize |-> 0, timeRemaining |-> [form |-> "Calculating...", hours |-> 0,
                                           minutes |-> 0, secs |-> 0]]

\* UploadService's lastUpdateTime and lastUploadedSize (31-32), and an
\* UploadProgressComponent without its uploadState input (part_001 18, 29-30; only
\* the fileSize, uploadedSize and timeRemaining of the uploadState)
NoTracker ==
  [lastUpdateTime |-> 0, lastUploadedSize |-> <<0, 1>>, observed |-> NoObservation,
   view |-> [uploadState |-> Null, lastUpdateTime |-> 0, lastUploadedSize |-> 0,
             observed |-> NoObservation]]

\* handleFileSelection's fresh uploadState (also uploadFile 345-351)
FreshState(size) ==
  [uploadId |-> 0, fileSize |-> size, uploadedSize |-> 0,
   speed |-> "0 KB", timeRemaining |-> "Calculating..."]

Init ==
  /\ uploading = FALSE
  /\ progress = 0
  /\ errorMessage = Null
  /\ isPaused = FALSE
  /\ selectedFile = Null
  /\ uploadState = Null
  /\ inv = [i \in Ids |-> IdleInv]
  /\ abortPending = [i \in Ids |-> 0]
  /\ srv = [i \in Ids |-> [totalParts |-> 0, confirmed |-> {}]]
  /\ abortReqs = [i \in Ids |-> [caller |-> 0, loop |-> 0]]
  /\ aborted = {}
  /\ lastReq = NoReq
  /\ lastRet = NoRet
  /\ calls = 0
  /\ svc = IdleSvc
  /\ clock = 0
  /\ put = NoPut
  /\ chunked = NoChunked
  /\ tracker = NoTracker

\* ------------------------------------------------------- the remote session
RECURSIVE Ascending(_)
Ascending(S) ==
  IF S = {} THEN <<>>
  ELSE LET m == CHOOSE x \in S : \A y \in S : x <= y
       IN <<m>> \o Ascending(S \ {m})

\* The parts the session has not seen confirmed, in order.
Unconfirmed(total, conf) == Ascending((1..total) \ conf)

\* A wave offers any non-empty batch of unconfirmed parts (none when none is left).
Offers(u) ==
  LET S == {u[k] : k \in DOMAIN u}
  IN IF u = <<>> THEN {<<>>} ELSE {Ascending(T) : T \in (SUBSET S) \ {{}}}

PercentComplete(total, conf) ==
  IF total = 0 THEN 100 ELSE (Cardinality(conf) * 100) \div total

\* ------------------------------------------------------ ModulesComponent
NextSlot(i) == inv[i].pc = "idle" /\ \A j \in Ids : j < i => inv[j].pc # "idle"

CurrentId == IF uploadState = Null THEN 0 ELSE uploadState[1].uploadId

Req(kind, src, i, r, parts, paused, afterWave) ==
  [kind |-> kind, src |-> src, inv |-> i, uploadId |-> r.uploadId, parts |-> parts,
   paused |-> paused, afterWave |-> afterWave, postAbort |-> r.uploadId \in aborted,
   via |-> "none", prevId |-> 0, wasPaused |-> FALSE]

Ret(op, i, outcome, failed, abortIssued, errorSet, reqOk) ==
  [op |-> op, inv |-> i, outcome |-> outcome, failed |-> failed,
   abortIssued |-> abortIssued, errorSet |-> errorSet, reqOk |-> reqOk,
   batch |-> NoBatch]

resetUploadState_keepsPaused ==
  /\ uploading' = FALSE
  /\ isPaused' = isPaused
  /\ progress' = 0
  /\ selectedFile' = Null
  /\ uploadState' = Null
  /\ errorMessage' = Null

\* resetUploadState(), 491-498
resetUploadState ==
  /\ uploading' = FALSE
  /\ isPaused' = FALSE
  /\ progress' = 0
  /\ selectedFile' = Null
  /\ uploadState' = Null
  /\ errorMessage' = Null

\* finally { if (!this.isPaused) this.uploading = false }, 447-451
Finally(paused, upl) == IF ~paused THEN FALSE ELSE upl

\* handleFileSelection(file), 454-463, for a file whose size is in sizes
handleFileSelectionOf(sizes) ==
  \E size \in sizes :
    /\ calls < MaxCalls
    /\ calls' = calls + 1
    /\ selectedFile' = Some(size)
    /\ uploadState' = Some(FreshState(size))
    /\ lastReq' = NoReq
    /\ lastRet' = Ret("handleFileSelection", 0, "returned", FALSE, FALSE, FALSE, TRUE)
    /\ UNCHANGED <<uploading, progress, errorMessage, isPaused, inv, abortPending,
                   srv, abortReqs, aborted>>

handleFileSelection == handleFileSelectionOf(FileSizes)

\* uploadFile(file), 325-342, entered with isPaused false: up to the initiate request
uploadFileEnter(i, via, wasPaused) ==
  LET r == [IdleInv EXCEPT !.pc = "init", !.file = selectedFile[1]]
  IN /\ uploading' = TRUE
     /\ errorMessage' = Null
     /\ inv' = [inv EXCEPT ![i] = r]
     /\ lastReq' = [Req("initiate", "loop", i, r, <<>>, FALSE, FALSE)
                      EXCEPT !.via = via, !.prevId = CurrentId, !.wasPaused = wasPaused]
     /\ lastRet' = NoRet

\* the caller starts the upload of the selected file: uploadFile(selectedFile)
startUpload ==
  /\ calls < MaxCalls
  /\ calls' = calls + 1
  /\ selectedFile # Null
  /\ IF isPaused
       THEN \* if (this.isPaused) return, 326
            /\ lastReq' = NoReq
            /\ lastRet' = Ret("uploadFile", 0, "paused", FALSE, FALSE, FALSE, TRUE)
            /\ UNCHANGED <<compVars, inv, abortPending, srv, abortReqs, aborted>>
       ELSE \E i \in Ids :
              /\ NextSlot(i)
              /\ uploadFileEnter(i, "start", FALSE)
              /\ UNCHANGED <<progress, isPaused, selectedFile, uploadState,
                             abortPending, srv, abortReqs, aborted>>

\* pauseUpload(), 466-469
pauseUpload ==
  /\ calls < MaxCalls
  /\ calls' = calls + 1
  /\ isPaused' = TRUE
  /\ lastReq' = NoReq
  /\ lastRet' = Ret("pauseUpload", 0, "returned", FALSE, FALSE, FALSE, TRUE)
  /\ UNCHANGED <<uploading, progress, errorMessage, selectedFile, uploadState, inv,
                 abortPending, srv, abortReqs, aborted>>

\* resumeUpload(), 471-476
resumeUpload ==
  /\ calls < MaxCalls
  /\ calls' = calls + 1
  /\ isPaused' = FALSE
  /\ IF selectedFile # Null
       THEN \E i \in Ids :
              /\ NextSlot(i)
              /\ uploadFileEnter(i, "resume", isPaused)
              /\ UNCHANGED <<progress, selectedFile, uploadState,
                             abortPending, srv, abortReqs, aborted>>
       ELSE /\ lastReq' = NoReq
            /\ lastRet' = Ret("resumeUpload", 0, "returned", FALSE, FALSE, FALSE, TRUE)
            /\ UNCHANGED <<uploading, progress, errorMessage, selectedFile, uploadState,
                           inv, abortPending, srv, abortReqs, aborted>>

\* catch (error), 426-446, with uploadId set: errorMessage, then the abort request
catchAndAbort(i) ==
  LET r == inv[i]
  IN /\ errorMessage' = Some("Upload failed")
     /\ abortReqs' = [abortReqs EXCEPT ![r.uploadId].loop = @ + 1]
     /\ inv' = [inv EXCEPT ![i].pc = "abort"]
     /\ lastReq' = Req("abort", "loop", i, r, <<>>, isPaused, FALSE)
     /\ lastRet' = NoRet

\* catch (error), 426-446, with uploadId undefined, then finally: uploadFile returns
catchNoSession(i, message) ==
  /\ errorMessage' = Some(message)
  /\ uploading' = Finally(isPaused, uploading)
  /\ inv' = [inv EXCEPT ![i] = DoneInv]
  /\ lastReq' = NoReq
  /\ lastRet' = Ret("uploadFile", i, "error", FALSE, FALSE, TRUE, TRUE)

\* the response to initiateFileUpload, 335-371
initiateResponse(i) ==
  LET r == inv[i]
  IN /\ r.pc = "init"
     /\ \/ \* the request fails
           /\ catchNoSession(i, "Upload failed")
           /\ UNCHANGED <<progress, isPaused, selectedFile, uploadState, abortPending,
                          srv, abortReqs, aborted>>
        \/ \* the response carries no uploadId: throw new Error('Upload ID is missing')
           /\ uploadState' =
                Some([(IF uploadState = Null THEN FreshState(r.file) ELSE uploadState[1])
                        EXCEPT !.uploadId = 0])
           /\ catchNoSession(i, "Upload ID is missing")
           /\ UNCHANGED <<progress, isPaused, selectedFile, abortPending, srv,
                          abortReqs, aborted>>
        \/ \* the session i is created; the first wave request carries no receipt
           \E ps \in PartSizes :
             LET r1 == [r EXCEPT !.pc = "wave0", !.uploadId = i, !.partSizeBytes = ps]
             IN /\ uploadState' =
                     Some([(IF uploadState = Null THEN FreshState(r.file)
                                                  ELSE uploadState[1])
                             EXCEPT !.uploadId = i])
                /\ srv' = [srv EXCEPT ![i] = [totalParts |-> Ceil(r.file, ps),
                                              confirmed |-> {}]]
                /\ inv' = [inv EXCEPT ![i] = r1]
                /\ lastReq' = Req("batch", "loop", i, r1, <<>>, isPaused, FALSE)
                /\ lastRet' = NoRet
                /\ UNCHANGED <<uploading, progress, errorMessage, isPaused, selectedFile,
                               abortPending, abortReqs, aborted>>

Accumulate_lastWaveOnly(all, batch) == batch

Accumulate_keepsFirstWave(all, batch) == IF all = <<>> THEN batch ELSE all

Accumulate_newestFirst(all, batch) == batch \o all

\* allUploadedETags = [...allUploadedETags, ...currentBatchETags], 388
Accumulate(all, batch) == all \o batch

\* uploadBatch returns (316-322); uploadFile 385-393 up to the next wave request
batchReturns(i, r) ==
  LET all == Accumulate(r.allUploadedETags, r.currentBatchETags)
      r1 == [r EXCEPT !.pc = "wave", !.allUploadedETags = all,
                      !.currentBatchETags = <<>>, !.idx = 0, !.retryCount = 0,
                      !.failedAll = 0, !.lateOk = FALSE, !.delay = 0]
  IN /\ inv' = [inv EXCEPT ![i] = r1]
     /\ lastReq' = Req("batch", "loop", i, r1, all, isPaused, r.presignedUrls # <<>>)
     /\ lastRet' = [NoRet EXCEPT !.op = "uploadBatch", !.inv = i, !.outcome = "returned",
                                 !.batch = [NoBatch EXCEPT
                                              !.requested = Len(r.presignedUrls),
                                              !.attempted = r.idx,
                                              !.receipts = Len(r.currentBatchETags),
                                              !.failedAll = r.failedAll,
                                              !.lateOk = r.lateOk]]

WhileCond_ignoresComplete(isUploadComplete, paused) == ~paused

\* while (!isUploadComplete && !this.isPaused), 374
WhileCond(isUploadComplete, paused) == ~isUploadComplete /\ ~paused

CompleteCond_always(paused) == TRUE

\* if (!this.isPaused), 414
CompleteCond(paused) == ~paused

\* the loop condition, 374, and what follows the loop, 414-425
loopHead(i, r, isUploadComplete) ==
  IF WhileCond(isUploadComplete, isPaused)
    THEN IF r.presignedUrls = <<>>
           THEN \* uploadBatch has nothing to upload and returns at once
                batchReturns(i, r)
           ELSE \* uploadBatch, 266-286: the first attempt of the first part
                /\ inv' = [inv EXCEPT ![i] = [r EXCEPT !.pc = "part", !.idx = 1,
                                                        !.retryCount = 0,
                                                        !.currentBatchETags = <<>>,
                                                        !.failedAll = 0,
                                                        !.lateOk = FALSE]]
                /\ lastReq' = NoReq
                /\ lastRet' = NoRet
    ELSE IF CompleteCond(isPaused)
           THEN \* completeUpload(uploadId, allUploadedETags), 417-419
                /\ inv' = [inv EXCEPT ![i] = [r EXCEPT !.pc = "complete"]]
                /\ lastReq' = Req("complete", "loop", i, r, r.allUploadedETags,
                                  isPaused, FALSE)
                /\ lastRet' = NoRet
           ELSE \* paused: neither completion nor reset; finally leaves uploading alone
                /\ inv' = [inv EXCEPT ![i] = DoneInv]
                /\ lastReq' = NoReq
                /\ lastRet' = Ret("uploadFile", i, "paused", FALSE, FALSE, FALSE, TRUE)

\* the response to getNextBatchUrls, 369-371 (first request) and 391-412 (in the loop)
batchResponse(i) ==
  LET r == inv[i]
      s == srv[r.uploadId]
  IN /\ r.pc \in {"wave0", "wave"}
     /\ \/ \* the request fails outside the inner try, or inside it while not paused
           /\ r.pc = "wave0" \/ ~isPaused
           /\ catchAndAbort(i)
           /\ UNCHANGED <<uploading, progress, isPaused, selectedFile, uploadState,
                          abortPending, srv, aborted>>
        \/ \* the request fails inside the inner try while paused: return, 405-408
           /\ r.pc = "wave" /\ isPaused
           /\ inv' = [inv EXCEPT ![i] = DoneInv]
           /\ lastReq' = NoReq
           /\ lastRet' = Ret("uploadFile", i, "paused", TRUE, FALSE, FALSE, TRUE)
           /\ UNCHANGED <<compVars, abortPending, srv, abortReqs, aborted>>
        \/ \* the session records the receipts it was sent and answers
           LET conf == s.confirmed \cup PartNumbers(r.allUploadedETags)
               isComplete == conf = 1..s.totalParts
           IN \E urls \in Offers(Unconfirmed(s.totalParts, conf)) :
                /\ srv' = [srv EXCEPT ![r.uploadId].confirmed = conf]
                /\ progress' = IF r.pc = "wave"
                                 THEN PercentComplete(s.totalParts, conf)
                                 ELSE progress
                /\ loopHead(i, [r EXCEPT !.presignedUrls = urls],
                            IF r.pc = "wave" THEN isComplete ELSE FALSE)
                /\ UNCHANGED <<uploading, errorMessage, isPaused, selectedFile,
                               uploadState, abortPending, abortReqs, aborted>>

RetryLoopCond_offByOne(retryCount, success) == retryCount <= maxRetries /\ ~success

\* while (retryCount < maxRetries && !success), 274
RetryLoopCond(retryCount, success) == retryCount < maxRetries /\ ~success

\* if (retryCount < maxRetries): wait before the retry, 301
BackoffCond(retryCount) == retryCount < maxRetries

backoffDelay_linear(retryCount) == Min(1000 * retryCount, 10000)

\* const delay = Math.min(1000 * Math.pow(2, retryCount), 10000), 303
backoffDelay(retryCount) == Min(1000 * 2^retryCount, 10000)

ForHasNext_firstPartOnly(idx, presignedUrls) == FALSE

\* for (const { partNumber, url } of presignedUrls), 269: another part is left
ForHasNext(idx, presignedUrls) == idx < Len(presignedUrls)

\* uploadBatch after the retry loop of one part, 309-314: the next part or the return
nextPart(i, r) ==
  IF ForHasNext(r.idx, r.presignedUrls)
    THEN /\ inv' = [inv EXCEPT ![i] = [r EXCEPT !.pc = "part", !.idx = @ + 1,
                                                !.retryCount = 0, !.delay = 0]]
         /\ lastReq' = NoReq
         /\ lastRet' = NoRet
    ELSE batchReturns(i, r)

\* the response to one uploadPart attempt inside uploadBatch, 284-314
partResponseOf(i, responses) ==
  LET r == inv[i]
  IN /\ r.pc = "part"
     /\ \E resp \in responses :
          LET res == uploadPart(resp)
          IN IF res.ok
               THEN LET batch == Append(r.currentBatchETags,
                                        [partNumber |-> r.presignedUrls[r.idx],
                                         etag |-> res.etag])
                    IN /\ uploadState' =
                            IF uploadState # Null
                              THEN Some([uploadState[1] EXCEPT !.uploadedSize =
                                           Min(Len(batch) * r.partSizeBytes,
                                               uploadState[1].fileSize)])
                              ELSE uploadState
                       /\ nextPart(i, [r EXCEPT !.currentBatchETags = batch,
                                                  !.lateOk = @ \/ r.retryCount = maxRetries - 1])
               ELSE LET rc == r.retryCount + 1
                    IN /\ UNCHANGED uploadState
                       /\ IF BackoffCond(rc)
                            THEN /\ inv' = [inv EXCEPT ![i].pc = "backoff",
                                                       ![i].retryCount = rc,
                                                       ![i].delay = backoffDelay(rc)]
                                 /\ lastReq' = NoReq
                                 /\ lastRet' = NoRet
                            ELSE IF RetryLoopCond(rc, FALSE)
                                   THEN /\ inv' = [inv EXCEPT ![i].retryCount = rc,
                                                              ![i].delay = 0]
                                        /\ lastReq' = NoReq
                                        /\ lastRet' = NoRet
                                   ELSE nextPart(i, [r EXCEPT !.retryCount = rc,
                                                              !.failedAll = @ + 1,
                                                              !.exhausted = TRUE])
     /\ UNCHANGED <<uploading, progress, errorMessage, isPaused, selectedFile,
                    abortPending, srv, abortReqs, aborted>>

partResponse(i) == partResponseOf(i, PutResponses)

\* the backoff timer fires, 304: the loop condition holds and the part is tried again
backoffElapsed(i) ==
  LET r == inv[i]
  IN /\ r.pc = "backoff"
     /\ IF RetryLoopCond(r.retryCount, FALSE)
          THEN /\ inv' = [inv EXCEPT ![i].pc = "part"]
               /\ lastReq' = NoReq
               /\ lastRet' = NoRet
          ELSE nextPart(i, [r EXCEPT !.failedAll = @ + 1, !.exhausted = TRUE])
     /\ UNCHANGED <<compVars, abortPending, srv, abortReqs, aborted>>

\* the response to completeUpload, 417-425
completeResponse(i) ==
  /\ inv[i].pc = "complete"
  /\ \/ /\ resetUploadState
        /\ inv' = [inv EXCEPT ![i] = DoneInv]
        /\ lastReq' = NoReq
        /\ lastRet' = Ret("uploadFile", i, "completed", FALSE, FALSE, FALSE, TRUE)
        /\ UNCHANGED <<abortPending, srv, abortReqs, aborted>>
     \/ /\ catchAndAbort(i)
        /\ UNCHANGED <<uploading, progress, isPaused, selectedFile, uploadState,
                       abortPending, srv, aborted>>

\* the response to the loop's abort request, 440-451: its failure is only logged
abortResponse(i) ==
  /\ inv[i].pc = "abort"
  /\ \E ok \in BOOLEAN :
       /\ uploading' = Finally(isPaused, uploading)
       /\ inv' = [inv EXCEPT ![i] = DoneInv]
       /\ lastReq' = NoReq
       /\ lastRet' = Ret("uploadFile", i, "error", TRUE, TRUE, TRUE, ok)
  /\ UNCHANGED <<progress, errorMessage, isPaused, selectedFile, uploadState,
                 abortPending, srv, abortReqs, aborted>>

\* abortUpload(), 478-489, up to the abort request (or to the end, with no session)
abortUpload ==
  /\ calls < MaxCalls
  /\ calls' = calls + 1
  /\ IF CurrentId # 0
    THEN /\ abortReqs' = [abortReqs EXCEPT ![CurrentId].caller = @ + 1]
         /\ abortPending' = [abortPending EXCEPT ![CurrentId] = @ + 1]
         /\ lastReq' = [NoReq EXCEPT !.kind = "abort", !.src = "caller",
                                     !.uploadId = CurrentId, !.paused = isPaused]
         /\ lastRet' = NoRet
         /\ UNCHANGED <<compVars, inv, srv, aborted>>
    ELSE /\ resetUploadState
         /\ lastReq' = NoReq
         /\ lastRet' = Ret("abortUpload", 0, "resolved", FALSE, FALSE, FALSE, TRUE)
         /\ UNCHANGED <<inv, abortPending, srv, abortReqs, aborted>>

\* the response to the caller's abort request, 481-488: caught, then the reset
abortUploadResponse(id) ==
  /\ abortPending[id] > 0
  /\ \E ok \in BOOLEAN :
       /\ resetUploadState
       /\ abortPending' = [abortPending EXCEPT ![id] = @ - 1]
       /\ aborted' = IF \E i \in Ids : /\ inv[i].uploadId = id
                                        /\ inv[i].pc \in {"part", "backoff"}
                      THEN aborted \cup {id}
                      ELSE aborted
       /\ lastReq' = NoReq
       /\ lastRet' = Ret("abortUpload", 0, "resolved", FALSE, TRUE, FALSE, ok)
  /\ UNCHANGED <<inv, srv, abortReqs>>

Next ==
  \/ handleFileSelection /\ UNCHANGED <<svcVars, pureVars>>
  \/ startUpload /\ UNCHANGED <<svcVars, pureVars>>
  \/ pauseUpload /\ UNCHANGED <<svcVars, pureVars>>
  \/ resumeUpload /\ UNCHANGED <<svcVars, pureVars>>
  \/ abortUpload /\ UNCHANGED <<svcVars, pureVars>>
  \/ \E id \in Ids : abortUploadResponse(id) /\ UNCHANGED <<calls, svcVars, pureVars>>
  \/ \E i \in Ids : initiateResponse(i) /\ UNCHANGED <<calls, svcVars, pureVars>>
  \/ \E i \in Ids : batchResponse(i) /\ UNCHANGED <<calls, svcVars, pureVars>>
  \/ \E i \in Ids : partResponse(i) /\ UNCHANGED <<calls, svcVars, pureVars>>
  \/ \E i \in Ids : backoffElapsed(i) /\ UNCHANGED <<calls, svcVars, pureVars>>
  \/ \E i \in Ids : completeResponse(i) /\ UNCHANGED <<calls, svcVars, pureVars>>
  \/ \E i \in Ids : abortResponse(i) /\ UNCHANGED <<calls, svcVars, pureVars>>

\* Any interleaving of the caller's calls with at most MaxRuns invocations of
\* uploadFile.
Spec == Init /\ [][Next]_vars

\* The caller starts a single upload: no second invocation of uploadFile.
NoRunYet == \A i \in Ids : inv[i].pc = "idle"

SingleRunNext ==
  \/ handleFileSelection /\ UNCHANGED <<svcVars, pureVars>>
  \/ startUpload /\ NoRunYet /\ UNCHANGED <<svcVars, pureVars>>
  \/ pauseUpload /\ UNCHANGED <<svcVars, pureVars>>
  \/ resumeUpload /\ (selectedFile = Null \/ NoRunYet) /\ UNCHANGED <<svcVars, pureVars>>
  \/ abortUpload /\ UNCHANGED <<svcVars, pureVars>>
  \/ \E id \in Ids : abortUploadResponse(id) /\ UNCHANGED <<calls, svcVars, pureVars>>
  \/ \E i \in Ids : initiateResponse(i) /\ UNCHANGED <<calls, svcVars, pureVars>>
  \/ \E i \in Ids : batchResponse(i) /\ UNCHANGED <<calls, svcVars, pureVars>>
  \/ \E i \in Ids : partResponse(i) /\ UNCHANGED <<calls, svcVars, pureVars>>
  \/ \E i \in Ids : backoffElapsed(i) /\ UNCHANGED <<calls, svcVars, pureVars>>
  \/ \E i \in Ids : completeResponse(i) /\ UNCHANGED <<calls, svcVars, pureVars>>
  \/ \E i \in Ids : abortResponse(i) /\ UNCHANGED <<calls, svcVars, pureVars>>

SingleRunSpec == Init /\ [][SingleRunNext]_vars

\* One upload the caller leaves alone: a file is selected once and uploaded, with
\* no pause, resume or abort.  The file may be empty: its session has no part and
\* is complete from the first wave response on.
PlainRunNext ==
  \/ /\ handleFileSelectionOf(0..MaxPlainFileSize)
     /\ selectedFile = Null /\ NoRunYet
     /\ UNCHANGED <<svcVars, pureVars>>
  \/ startUpload /\ NoRunYet /\ UNCHANGED <<svcVars, pureVars>>
  \/ \E i \in Ids : initiateResponse(i) /\ UNCHANGED <<calls, svcVars, pureVars>>
  \/ \E i \in Ids : batchResponse(i) /\ UNCHANGED <<calls, svcVars, pureVars>>
  \/ \E i \in Ids : partResponse(i) /\ UNCHANGED <<calls, svcVars, pureVars>>
  \/ \E i \in Ids : backoffElapsed(i) /\ UNCHANGED <<calls, svcVars, pureVars>>
  \/ \E i \in Ids : completeResponse(i) /\ UNCHANGED <<calls, svcVars, pureVars>>
  \/ \E i \in Ids : abortResponse(i) /\ UNCHANGED <<calls, svcVars, pureVars>>

PlainRunSpec == Init /\ [][PlainRunNext]_vars

\* The same upload answered by a storage service that may also send an ETag header
\* of two quote characters.
QuotedRunNext ==
  \/ /\ handleFileSelectionOf(0..MaxPlainFileSize)
     /\ selectedFile = Null /\ NoRunYet
     /\ UNCHANGED <<svcVars, pureVars>>
  \/ startUpload /\ NoRunYet /\ UNCHANGED <<svcVars, pureVars>>
  \/ \E i \in Ids : initiateResponse(i) /\ UNCHANGED <<calls, svcVars, pureVars>>
  \/ \E i \in Ids : batchResponse(i) /\ UNCHANGED <<calls, svcVars, pureVars>>
  \/ \E i \in Ids :
       /\ partResponseOf(i, PutResponses \cup {[ok |-> TRUE, header |-> QuotesOnly]})
       /\ UNCHANGED <<calls, svcVars, pureVars>>
  \/ \E i \in Ids : backoffElapsed(i) /\ UNCHANGED <<calls, svcVars, pureVars>>
  \/ \E i \in Ids : completeResponse(i) /\ UNCHANGED <<calls, svcVars, pureVars>>
  \/ \E i \in Ids : abortResponse(i) /\ UNCHANGED <<calls, svcVars, pureVars>>

QuotedRunSpec == Init /\ [][QuotedRunNext]_vars

\* The responses under which an upload goes on: the initiate request and the wave
\* requests succeed, a part upload succeeds.
initiateSucceeds(i) == initiateResponse(i) /\ inv'[i].pc = "wave0"

batchSucceeds(i) == batchResponse(i) /\ inv'[i].pc \notin {"abort", "done"}

partSucceeds(i) ==
  /\ partResponse(i)
  /\ Len(inv'[i].currentBatchETags) + Len(inv'[i].allUploadedETags)
       > Len(inv[i].currentBatchETags) + Len(inv[i].allUploadedETags)

\* ---------------------------------------------------------- UploadService
\* Date.now(): time does not run backwards and is capped by MaxTime
Times == {t \in clock..(clock + 1) : t <= MaxTime}

\* splitFileIntoChunks(file, partSizeBytes), 34-49: blob is the byte range [start, end)
\* With partSizeBytes < 0 totalChunks is <= 0 and the loop body never runs; with
\* partSizeBytes = 0 totalChunks is Infinity (splitDiverges) and the loop never ends.
splitDiverges(size, partSizeBytes) == partSizeBytes = 0 /\ size > 0

totalChunks(size, partSizeBytes) ==
  IF partSizeBytes > 0 THEN Ceil(size, partSizeBytes) ELSE 0

splitFileIntoChunks_noClamp(size, partSizeBytes) ==
  [k \in 1..totalChunks(size, partSizeBytes) |->
     [partNumber |-> k,
      start |-> (k - 1) * partSizeBytes,
      end |-> (k - 1) * partSizeBytes + partSizeBytes]]

splitFileIntoChunks(size, partSizeBytes) ==
  [k \in 1..totalChunks(size, partSizeBytes) |->
     [partNumber |-> k,
      start |-> (k - 1) * partSizeBytes,
      end |-> Min((k - 1) * partSizeBytes + partSizeBytes, size)]]

\* The quotient a / b of two numbers as the engine computes it (IEEE 754 doubles):
\* a and b are fractions <<numerator, denominator>> with a positive denominator, and
\* b, when zero, is +0.  The result is NaN, an infinity, or a finite fraction with
\* its sign bit (a zero dividend over a negative divisor is -0).
Quotient(a, b) ==
  IF b[1] = 0
    THEN [kind |-> IF a[1] = 0 THEN "NaN" ELSE IF a[1] > 0 THEN "Infinity" ELSE "-Infinity",
          num |-> 0, den |-> 1, negative |-> a[1] < 0]
    ELSE [kind |-> "finite",
          num |-> IF b[1] > 0 THEN a[1] * b[2] ELSE 0 - a[1] * b[2],
          den |-> IF b[1] > 0 THEN a[2] * b[1] ELSE 0 - a[2] * b[1],
          negative |-> (a[1] < 0) # (b[1] < 0)]

\* the default timeRemaining, 176
Calculating == [form |-> "Calculating...", hours |-> 0, minutes |-> 0, secs |-> 0]

\* formatTimeRemaining(seconds), 211-225 (the same code in UploadProgressComponent,
\* 78-92): -0 is finite and not < 0
formatTimeRemaining(seconds) ==
  IF seconds.kind # "finite" \/ seconds.num < 0
    THEN Calculating
    ELSE LET whole == seconds.num \div seconds.den
             hours == whole \div 3600
             minutes == (whole % 3600) \div 60
             secs == whole % 60
         IN IF hours > 0
              THEN [form |-> "h m", hours |-> hours, minutes |-> minutes, secs |-> 0]
              ELSE IF minutes > 0
                     THEN [form |-> "m s", hours |-> 0, minutes |-> minutes, secs |-> secs]
                     ELSE [form |-> "s", hours |-> 0, minutes |-> 0, secs |-> secs]

\* calculateProgress(uploadedSize, totalSize), 170-196, without the formatting of
\* speed: rated says whether timeDiff > 0, sizeDiff and timeDiff (in milliseconds)
\* are what the speed is computed from, bytesPerSecond is sizeDiff / (timeDiff / 1000)
calculateProgress(s, now, uploadedSize, totalSize) ==
  LET timeDiff == now - s.lastUpdateTime
      sizeDiff == <<uploadedSize[1] * s.lastUploadedSize[2]
                      - s.lastUploadedSize[1] * uploadedSize[2],
                    uploadedSize[2] * s.lastUploadedSize[2]>>
      bytesPerSecond == <<sizeDiff[1] * MsPerSecond, sizeDiff[2] * timeDiff>>
      remainingSize == <<totalSize * uploadedSize[2] - uploadedSize[1], uploadedSize[2]>>
  IN [lastUpdateTime |-> IF timeDiff > 0 THEN now ELSE s.lastUpdateTime,
      lastUploadedSize |-> IF timeDiff > 0 THEN uploadedSize ELSE s.lastUploadedSize,
      progress |-> [uploadedSize |-> uploadedSize, totalSize |-> totalSize,
                    rated |-> timeDiff > 0, sizeDiff |-> sizeDiff,
                    timeDiff |-> timeDiff,
                    timeRemaining |->
                      IF timeDiff > 0
                        THEN formatTimeRemaining(Quotient(remainingSize, bytesPerSecond))
                        ELSE Calculating]]

\* catch (error), 149-157: the error is thrown to the caller; no request is made
svcThrow(failed) ==
  /\ svc' = [svc EXCEPT !.pc = "done"]
  /\ lastReq' = NoReq
  /\ lastRet' = Ret("UploadService.uploadFile", 0, "rejected", failed,
                    svc.uploadId # 0 /\ abortReqs[svc.uploadId].caller
                                          + abortReqs[svc.uploadId].loop > 0,
                    FALSE, TRUE)

\* uploadFile(file, onProgress), 89-103, up to the initiate request
svcUploadFile ==
  /\ svc.pc = "idle"
  /\ calls < MaxCalls
  /\ calls' = calls + 1
  /\ \E size \in FileSizes, now \in Times :
       /\ clock' = now
       /\ svc' = [IdleSvc EXCEPT !.pc = "init", !.file = size, !.lastUpdateTime = now,
                                 !.lastUploadedSize = <<0, 1>>]
       /\ lastReq' = Req("initiate", "svc", 0, svc, <<>>, FALSE, FALSE)
       /\ lastRet' = NoRet
  /\ UNCHANGED <<compVars, inv, abortPending, srv, abortReqs, aborted>>

AllSettled_firstSettled(results) ==
  \E j \in 1..Len(results) : results[j].status # "pending"

\* await Promise.allSettled(...), 55: every promise of the wave has settled
AllSettled(results) ==
  \A j \in 1..Len(results) : results[j].status # "pending"

\* uploadBatch(parts, chunks) returns, 76-86; uploadFile 125-130: the next wave request
svcBatchReturns(s) ==
  LET fulfilled == SelectSeq(s.results, LAMBDA x : x.status = "fulfilled")
      ok == [k \in 1..Len(fulfilled) |-> fulfilled[k].value]
      sent == SelectSeq(s.results, LAMBDA x : x.sent)
      s1 == [s EXCEPT !.pc = "wave", !.prevBatchETags = ok, !.results = <<>>,
                      !.waves = IF ok = <<>> THEN @ ELSE Min(@ + 1, 2)]
  IN /\ svc' = s1
     /\ lastReq' = Req("batch", "svc", 0, s1, ok, FALSE, s.presignedUrls # <<>>)
     /\ lastRet' = [NoRet EXCEPT !.op = "UploadService.uploadBatch",
                                 !.outcome = "returned",
                                 !.batch = [NoBatch EXCEPT
                                              !.requested = Len(s.presignedUrls),
                                              !.attempted = Len(sent),
                                              !.noChunk = Len(s.results) - Len(sent),
                                              !.unsettled =
                                                Len(SelectSeq(s.results, LAMBDA x :
                                                      x.status = "pending")),
                                              !.receipts = Len(ok)]]

\* uploadBatch(parts, chunks), 55-74: every part with a chunk is sent at once; a part
\* with no chunk is rejected without a request
svcUploadBatch(s) ==
  LET found(k) == \E c \in 1..Len(s.chunks) :
                     s.chunks[c].partNumber = s.presignedUrls[k]
      results == [k \in 1..Len(s.presignedUrls) |->
                    [status |-> IF found(k) THEN "pending" ELSE "rejected",
                     sent |-> found(k),
                     value |-> [partNumber |-> s.presignedUrls[k], etag |-> <<>>]]]
      s1 == [s EXCEPT !.pc = "parts", !.results = results]
  IN IF AllSettled(results)
       THEN svcBatchReturns(s1)
       ELSE /\ svc' = s1
            /\ lastReq' = NoReq
            /\ lastRet' = NoRet

\* the response to initiateFileUpload, 96-116
svcInitiateResponse ==
  /\ svc.pc = "init"
  /\ \/ /\ svcThrow(FALSE)
        /\ UNCHANGED srv
     \/ \E ps \in PartSizes \cup BadPartSizes, total \in FileSizes :
          LET s1 == [svc EXCEPT !.pc = "wave0", !.uploadId = 1, !.partSizeBytes = ps,
                                !.chunks = splitFileIntoChunks(svc.file, ps)]
          IN \* the session's totalParts is the remote's; it is ceil(size / partSize)
             \* when the remote hands out a positive part size
             /\ ps > 0 => total = Ceil(svc.file, ps)
             /\ srv' = [srv EXCEPT ![1] = [totalParts |-> total, confirmed |-> {}]]
             /\ IF splitDiverges(svc.file, ps)
                  THEN \* the loop of 38-45 grows chunks without end: the call hangs,
                       \* or the engine gives up with an error that 149 catches
                       \/ /\ svc' = [svc EXCEPT !.pc = "diverged", !.uploadId = 1,
                                                 !.partSizeBytes = ps]
                          /\ lastReq' = NoReq
                          /\ lastRet' = NoRet
                       \/ /\ svc' = [svc EXCEPT !.pc = "done", !.uploadId = 1,
                                                 !.partSizeBytes = ps]
                          /\ lastReq' = NoReq
                          /\ lastRet' = Ret("UploadService.uploadFile", 0, "rejected",
                                            FALSE, FALSE, FALSE, TRUE)
                  ELSE /\ svc' = s1
                       /\ lastReq' = Req("batch", "svc", 0, s1, <<>>, FALSE, FALSE)
                       /\ lastRet' = NoRet
  /\ UNCHANGED <<compVars, inv, abortPending, abortReqs, aborted, calls, clock>>

\* the response to getNextBatchUrls: 114-120 (first request), 128-147 (in the loop)
svcBatchResponse ==
  /\ svc.pc \in {"wave0", "wave"}
  /\ \/ /\ svcThrow(TRUE)
        /\ UNCHANGED <<srv, clock>>
     \/ LET t == srv[svc.uploadId]
            conf == t.confirmed \cup PartNumbers(svc.prevBatchETags)
            isComplete == conf = 1..t.totalParts
        IN \E urls \in Offers(Unconfirmed(t.totalParts, conf)), now \in Times :
             /\ srv' = [srv EXCEPT ![svc.uploadId].confirmed = conf]
             /\ IF svc.pc = "wave0"
                  THEN /\ clock' = clock
                       /\ svcUploadBatch([svc EXCEPT !.presignedUrls = urls])
                  ELSE LET p == calculateProgress(
                                  svc, now,
                                  <<Cardinality(conf) * svc.file, t.totalParts>>,
                                  svc.file)
                           s1 == [svc EXCEPT !.presignedUrls = urls,
                                             !.lastUpdateTime = p.lastUpdateTime,
                                             !.lastUploadedSize = p.lastUploadedSize,
                                             !.onProgress = Some(p.progress)]
                       IN /\ clock' = now
                          /\ IF ~isComplete
                               THEN svcUploadBatch(s1)
                               ELSE /\ svc' = [s1 EXCEPT !.pc = "complete"]
                                    /\ lastReq' = Req("complete", "svc", 0, s1,
                                                      s1.prevBatchETags, FALSE, FALSE)
                                    /\ lastRet' = NoRet
  /\ UNCHANGED <<compVars, inv, abortPending, abortReqs, aborted, calls>>

\* the response to one uploadPart of the wave, 63-72; the wave ends with the last one
svcPartResponse ==
  /\ svc.pc = "parts"
  /\ \E k \in 1..Len(svc.results), resp \in PutResponses :
       /\ svc.results[k].status = "pending"
       /\ LET res == uploadPart(resp)
              s1 == [svc EXCEPT !.results[k] =
                       IF res.ok THEN [status |-> "fulfilled", sent |-> TRUE,
                                       value |-> [partNumber |-> svc.presignedUrls[k],
                                                  etag |-> res.etag]]
                                 ELSE [@ EXCEPT !.status = "rejected"]]
          IN IF AllSettled(s1.results)
               THEN svcBatchReturns(s1)
               ELSE /\ svc' = s1
                    /\ lastReq' = NoReq
                    /\ lastRet' = NoRet
  /\ UNCHANGED <<compVars, inv, abortPending, srv, abortReqs, aborted, calls, clock>>

\* the response to completeUpload, 142-147
svcCompleteResponse ==
  /\ svc.pc = "complete"
  /\ \/ /\ svc' = [svc EXCEPT !.pc = "done"]
        /\ lastReq' = NoReq
        /\ lastRet' = Ret("UploadService.uploadFile", 0, "resolved", FALSE, FALSE,
                          FALSE, TRUE)
     \/ svcThrow(TRUE)
  /\ UNCHANGED <<compVars, inv, abortPending, srv, abortReqs, aborted, calls, clock>>

\* abortUpload(uploadId), 160-162: the caller's own call, for any uploadId
svcAbortUpload ==
  /\ calls < MaxCalls
  /\ calls' = calls + 1
  /\ \E id \in Ids :
       /\ abortReqs' = [abortReqs EXCEPT ![id].caller = @ + 1]
       /\ abortPending' = [abortPending EXCEPT ![id] = @ + 1]
       /\ lastReq' = [NoReq EXCEPT !.kind = "abort", !.src = "caller", !.uploadId = id]
       /\ lastRet' = NoRet
  /\ UNCHANGED <<compVars, inv, srv, aborted, svcVars>>

\* the response to that abort request, 163-167: a failure is thrown on
svcAbortUploadResponse ==
  /\ \E id \in Ids, ok \in BOOLEAN :
       /\ abortPending[id] > 0
       /\ abortPending' = [abortPending EXCEPT ![id] = @ - 1]
       /\ lastReq' = NoReq
       /\ lastRet' = Ret("UploadService.abortUpload", 0,
                         IF ok THEN "resolved" ELSE "rejected", FALSE, TRUE, FALSE, ok)
  /\ UNCHANGED <<compVars, inv, srv, abortReqs, aborted, calls, svcVars>>

SvcNext ==
  \/ svcUploadFile /\ UNCHANGED pureVars
  \/ svcInitiateResponse /\ UNCHANGED pureVars
  \/ svcBatchResponse /\ UNCHANGED pureVars
  \/ svcPartResponse /\ UNCHANGED pureVars
  \/ svcCompleteResponse /\ UNCHANGED pureVars
  \/ svcAbortUpload /\ UNCHANGED pureVars
  \/ svcAbortUploadResponse /\ UNCHANGED pureVars

\* One invocation of UploadService.uploadFile and the caller's abortUpload calls.
SvcSpec == Init /\ [][SvcNext]_vars

\* FileUploadService.uploadPart called on its own: the caller hands a PUT response
\* to the uploadPart of file-upload.service.ts and to that of videos.service.ts.
callUploadPart ==
  /\ calls < MaxCalls
  /\ calls' = calls + 1
  /\ \E resp \in VideosPutResponses :
       put' = [applied |-> TRUE, response |-> resp,
               result |-> uploadPart([ok |-> resp.ok, header |-> resp.header]),
               videos |-> videos_uploadPart(resp)]
  /\ UNCHANGED <<compVars, inv, abortPending, srv, abortReqs, aborted, lastReq,
                 lastRet, svcVars, chunked, tracker>>

UploadPartNext == callUploadPart

UploadPartSpec == Init /\ [][UploadPartNext]_vars

\* UploadService.calculateProgress called on its own, with any uploadedSize and
\* totalSize (the remote reports completedParts and totalParts as it likes)
callCalculateProgress ==
  /\ calls < MaxCalls
  /\ calls' = calls + 1
  /\ \E uploadedSize \in 0..MaxTrackedSize, totalSize \in FileSizes, now \in Times :
       LET p == calculateProgress(tracker, now, <<uploadedSize, 1>>, totalSize)
       IN /\ clock' = now
          /\ tracker' = [tracker EXCEPT
                           !.lastUpdateTime = p.lastUpdateTime,
                           !.lastUploadedSize = p.lastUploadedSize,
                           !.observed =
                             [applied |-> TRUE, emitted |-> TRUE,
                              sizeDiff |-> p.progress.sizeDiff[1],
                              timeDiff |-> p.progress.timeDiff,
                              remainingSize |-> totalSize - uploadedSize,
                              timeRemaining |-> p.progress.timeRemaining]]
  /\ UNCHANGED <<compVars, inv, abortPending, srv, abortReqs, aborted, lastReq,
                 lastRet, svc, put, chunked>>

\* the parent binds the uploadState input of an UploadProgressComponent, part_001 18
bindUploadState ==
  /\ calls < MaxCalls
  /\ calls' = calls + 1
  /\ tracker.view.uploadState = Null
  /\ \E fileSize \in FileSizes :
       tracker' = [tracker EXCEPT !.view.uploadState =
                     Some([fileSize |-> fileSize, uploadedSize |-> 0,
                           timeRemaining |-> Calculating])]
  /\ UNCHANGED <<compVars, inv, abortPending, srv, abortReqs, aborted, lastReq,
                 lastRet, svcVars, put, chunked>>

\* UploadProgressComponent.updateProgress(uploadedSize), part_001 32-63
updateProgress ==
  /\ calls < MaxCalls
  /\ calls' = calls + 1
  /\ \E uploadedSize \in 0..MaxTrackedSize, now \in Times :
       LET v == tracker.view
           timeDiff == now - v.lastUpdateTime
           sizeDiff == uploadedSize - v.lastUploadedSize
           speed == <<sizeDiff * MsPerSecond, timeDiff>>
           remainingSize == v.uploadState[1].fileSize - uploadedSize
           timeRemaining ==
             formatTimeRemaining(Quotient(<<remainingSize, 1>>, speed))
       IN /\ clock' = now
          /\ IF v.uploadState = Null
               THEN tracker' = [tracker EXCEPT !.view.observed = NoObservation]
               ELSE IF timeDiff > 0
                 THEN tracker' = [tracker EXCEPT
                        !.view = [uploadState |->
                                    Some([fileSize |-> v.uploadState[1].fileSize,
                                          uploadedSize |-> uploadedSize,
                                          timeRemaining |-> timeRemaining]),
                                  lastUpdateTime |-> now,
                                  lastUploadedSize |-> uploadedSize,
                                  observed |->
                                    [applied |-> TRUE, emitted |-> TRUE,
                                     sizeDiff |-> sizeDiff, timeDiff |-> timeDiff,
                                     remainingSize |-> remainingSize,
                                     timeRemaining |-> timeRemaining]]]
                 ELSE tracker' = [tracker EXCEPT
                        !.view.observed =
                          [applied |-> TRUE, emitted |-> FALSE,
                           sizeDiff |-> sizeDiff, timeDiff |-> timeDiff,
                           remainingSize |-> remainingSize,
                           timeRemaining |-> v.uploadState[1].timeRemaining]]
  /\ UNCHANGED <<compVars, inv, abortPending, srv, abortReqs, aborted, lastReq,
                 lastRet, svc, put, chunked>>

\* The progress trackers driven directly by their callers.
TrackerNext ==
  \/ callCalculateProgress
  \/ bindUploadState
  \/ updateProgress

TrackerSpec == Init /\ [][TrackerNext]_vars

\* ModulesComponent.uploadBatch, 276-278: the byte range sliced for a part
sliceRange(partNumber, partSizeBytes, size) ==
  LET start == (partNumber - 1) * partSizeBytes
      end == Min(start + partSizeBytes, size)
  IN [start |-> start, end |-> end]

\* The chunker called on its own, with a positive size and a positive part size:
\* UploadService.splitFileIntoChunks, and the slice ModulesComponent.uploadBatch
\* takes for each part number of the session.
callSplit ==
  /\ calls < MaxCalls
  /\ calls' = calls + 1
  /\ \E size \in 1..MaxSplitSize, partSizeBytes \in 1..MaxSplitSize :
       chunked' = [applied |-> TRUE, size |-> size, partSizeBytes |-> partSizeBytes,
                   chunks |-> splitFileIntoChunks(size, partSizeBytes),
                   slices |-> [n \in 1..Ceil(size, partSizeBytes) |->
                                 sliceRange(n, partSizeBytes, size)]]
  /\ UNCHANGED <<compVars, inv, abortPending, srv, abortReqs, aborted, lastReq,
                 lastRet, svcVars, put, tracker>>

SplitNext == callSplit

SplitSpec == Init /\ [][SplitNext]_vars

\* One upload by either component: ModulesComponent.uploadFile once, or
\* UploadService.uploadFile once.
SvcRunNext ==
  \/ svcUploadFile /\ UNCHANGED pureVars
  \/ svcInitiateResponse /\ UNCHANGED pureVars
  \/ svcBatchResponse /\ UNCHANGED pureVars
  \/ svcPartResponse /\ UNCHANGED pureVars
  \/ svcCompleteResponse /\ UNCHANGED pureVars

OneUploadNext ==
  \/ SingleRunNext /\ svc.pc = "idle"
  \/ SvcRunNext /\ NoRunYet

OneUploadSpec == Init /\ [][OneUploadNext]_vars

\* Any interleaving of the caller's calls on one ModulesComponent, or one upload by
\* UploadService.
AnyUploadNext ==
  \/ Next /\ svc.pc = "idle"
  \/ SvcRunNext /\ NoRunYet

AnyUploadSpec == Init /\ [][AnyUploadNext]_vars

\* The UploadService responses under which an upload goes on: the initiate request
\* succeeds and hands out a positive part size, a wave request succeeds, a part
\* upload of the wave is fulfilled.
svcInitiateSucceeds ==
  svcInitiateResponse /\ svc'.pc = "wave0" /\ svc'.partSizeBytes > 0

svcBatchSucceeds == svcBatchResponse /\ svc'.pc # "done"

Fulfilled(results) == Len(SelectSeq(results, LAMBDA x : x.status = "fulfilled"))

svcPartSucceeds ==
  /\ svcPartResponse
  /\ IF svc'.pc = "parts"
       THEN Fulfilled(svc'.results) > Fulfilled(svc.results)
       ELSE Len(svc'.prevBatchETags) > Fulfilled(svc.results)

\* One upload the caller leaves alone, by either component, in which the initiate
\* request and every wave request succeed; a part upload or the finalize request may
\* fail.
LiveNext ==
  \/ /\ handleFileSelectionOf(0..MaxPlainFileSize)
     /\ selectedFile = Null /\ NoRunYet /\ svc.pc = "idle"
     /\ UNCHANGED <<svcVars, pureVars>>
  \/ startUpload /\ NoRunYet /\ svc.pc = "idle" /\ UNCHANGED <<svcVars, pureVars>>
  \/ \E i \in Ids : initiateSucceeds(i) /\ UNCHANGED <<calls, svcVars, pureVars>>
  \/ \E i \in Ids : batchSucceeds(i) /\ UNCHANGED <<calls, svcVars, pureVars>>
  \/ \E i \in Ids : partResponse(i) /\ UNCHANGED <<calls, svcVars, pureVars>>
  \/ \E i \in Ids : backoffElapsed(i) /\ UNCHANGED <<calls, svcVars, pureVars>>
  \/ \E i \in Ids : completeResponse(i) /\ UNCHANGED <<calls, svcVars, pureVars>>
  \/ \E i \in Ids : abortResponse(i) /\ UNCHANGED <<calls, svcVars, pureVars>>
  \/ svcUploadFile /\ NoRunYet /\ selectedFile = Null /\ UNCHANGED pureVars
  \/ svcInitiateSucceeds /\ UNCHANGED pureVars
  \/ svcBatchSucceeds /\ UNCHANGED pureVars
  \/ svcPartResponse /\ UNCHANGED pureVars
  \/ svcCompleteResponse /\ UNCHANGED pureVars

\* Every response arrives and every backoff timer fires (weak fairness); a part
\* upload that is attempted again and again eventually succeeds (strong fairness).
LiveFairness ==
  /\ WF_vars(\E i \in Ids : initiateSucceeds(i) /\ UNCHANGED <<calls, svcVars, pureVars>>)
  /\ WF_vars(\E i \in Ids : batchSucceeds(i) /\ UNCHANGED <<calls, svcVars, pureVars>>)
  /\ WF_vars(\E i \in Ids : partResponse(i) /\ UNCHANGED <<calls, svcVars, pureVars>>)
  /\ SF_vars(\E i \in Ids : partSucceeds(i) /\ UNCHANGED <<calls, svcVars, pureVars>>)
  /\ WF_vars(\E i \in Ids : backoffElapsed(i) /\ UNCHANGED <<calls, svcVars, pureVars>>)
  /\ WF_vars(\E i \in Ids : completeResponse(i) /\ UNCHANGED <<calls, svcVars, pureVars>>)
  /\ WF_vars(\E i \in Ids : abortResponse(i) /\ UNCHANGED <<calls, svcVars, pureVars>>)
  /\ WF_vars(svcInitiateSucceeds /\ UNCHANGED pureVars)
  /\ WF_vars(svcBatchSucceeds /\ UNCHANGED pureVars)
  /\ WF_vars(svcPartResponse /\ UNCHANGED pureVars)
  /\ SF_vars(svcPartSucceeds /\ UNCHANGED pureVars)
  /\ WF_vars(svcCompleteResponse /\ UNCHANGED pureVars)

LiveSpec == Init /\ [][LiveNext]_vars /\ LiveFairness

\* ------------------------------------------------------------------ claims

\* C1 (as claimed): when pauseUpload() was called while a wave was in flight, the
\* loop issues no wave request once the wave's part uploads have finished, as long
\* as resumeUpload() has not been called: no getNextBatchUrls request is issued at
\* the end of a wave while isPaused is true.
C1_NoWaveRequestWhilePaused ==
  ~(lastReq.kind = "batch" /\ lastReq.src = "loop" /\ lastReq.afterWave /\ lastReq.paused)

\* C2 (as claimed): resumeUpload() after pauseUpload(), with a session active,
\* goes on with that session: it makes no new initiate call.
C2_ResumeMakesNoInitiateCall ==
  ~(lastReq.kind = "initiate" /\ lastReq.via = "resume" /\ lastReq.wasPaused
    /\ lastReq.prevId # 0)

\* C3 (as claimed): a caller abort of a session leads to exactly one abort request
\* for its uploadId, the abort requests of a still running loop included.
C3_ExactlyOneAbortRequest ==
  \A id \in Ids :
    abortReqs[id].caller = 1 => abortReqs[id].caller + abortReqs[id].loop = 1

\* C4: when abortUpload() returns, whether its abort request succeeded, failed or was
\* never made, the local state is reset (uploading = false, isPaused = false,
\* progress = 0, selectedFile = null, uploadState = null, errorMessage = null) and
\* the call has resolved: the failure is not passed on to the caller.
C4_AbortResetsState ==
  lastRet.op = "abortUpload" =>
    /\ uploading = FALSE
    /\ isPaused = FALSE
    /\ progress = 0
    /\ selectedFile = Null
    /\ uploadState = Null
    /\ errorMessage = Null
    /\ lastRet.outcome = "resolved"

\* C4 witness: abortUpload() has returned after its abort request failed, with an
\* invocation of uploadFile still running.
C4_Witness ==
  /\ lastRet.op = "abortUpload"
  /\ lastRet.abortIssued
  /\ ~lastRet.reqOk
  /\ \E i \in Ids : inv[i].pc \in {"part", "backoff", "wave"}

\* C5 (as claimed): once a caller abort has completed while a wave of the session
\* was in flight, the loop sends no further wave request and no finalize call for
\* that session.
C5_NoRequestAfterAbort ==
  ~(lastReq.src = "loop" /\ lastReq.kind \in {"batch", "complete"} /\ lastReq.postAbort)

\* C6: the parts argument of completeUpload holds exactly one receipt for each
\* partNumber in 1..totalParts of the session: none missing, none twice.
C6_CompleteCarriesEveryPartOnce ==
  (lastReq.kind = "complete" /\ lastReq.src = "loop") =>
    /\ Len(lastReq.parts) = srv[lastReq.uploadId].totalParts
    /\ PartNumbers(lastReq.parts) = 1..srv[lastReq.uploadId].totalParts

\* C6 witness: completeUpload is called after more than one wave, the receipt of
\* part 2 collected in an earlier wave than that of part 1 (a wave lists its parts
\* in ascending order).
C6_Witness ==
  /\ lastReq.kind = "complete"
  /\ lastReq.src = "loop"
  /\ Len(lastReq.parts) >= 2
  /\ lastReq.parts[1].partNumber = 2
  /\ lastReq.parts[2].partNumber = 1

\* C7 (as claimed): when UploadService.uploadFile calls completeUpload after more
\* than one wave returned receipts, the parts argument holds a receipt for each
\* partNumber in 1..totalParts.
C7_SvcCompleteCarriesAllWaves ==
  (lastReq.kind = "complete" /\ lastReq.src = "svc" /\ svc.waves >= 2) =>
    PartNumbers(lastReq.parts) = 1..srv[lastReq.uploadId].totalParts

\* C8 (as claimed): when uploadFile returns after a wave request or the finalize
\* call failed for a session whose uploadId it holds, it has issued an abort request
\* for that uploadId and set errorMessage, also when isPaused was true at the catch.
C8_FailureAbortsSession ==
  (lastRet.op = "uploadFile" /\ lastRet.failed) =>
    (lastRet.abortIssued /\ lastRet.errorSet)

\* C9 (as claimed): when UploadService.uploadFile throws after a wave request or the
\* finalize call failed for a session it had initiated, an abort request for the
\* session's uploadId has been issued.
C9_SvcFailureAbortsSession ==
  (lastRet.op = "UploadService.uploadFile" /\ lastRet.outcome = "rejected"
     /\ lastRet.failed) => lastRet.abortIssued

\* C10: in uploadBatch a part is attempted at most maxRetries (3) times and not again
\* after a success (no part has two receipts); when uploadBatch returns, the number
\* of receipts is the number of parts requested minus the number of parts that
\* failed every attempt.
C10_BoundedRetriesAndReceiptCount ==
  /\ \A i \in Ids :
       inv[i].pc \in {"part", "backoff"} =>
         /\ inv[i].retryCount + 1 <= maxRetries
         /\ Cardinality(PartNumbers(inv[i].currentBatchETags))
              = Len(inv[i].currentBatchETags)
         /\ Len(inv[i].currentBatchETags) + inv[i].failedAll = inv[i].idx - 1
  /\ lastRet.op = "uploadBatch" =>
       lastRet.batch.receipts = lastRet.batch.requested - lastRet.batch.failedAll

\* C10 witness: uploadBatch returns from a wave of two parts, one of which failed
\* all three attempts and the other succeeded on its third attempt: one receipt.
C10_Witness ==
  /\ lastRet.op = "uploadBatch"
  /\ lastRet.batch.requested = 2
  /\ lastRet.batch.failedAll = 1
  /\ lastRet.batch.lateOk
  /\ lastRet.batch.receipts = 1

\* C11: whenever uploadBatch (of UploadService or of ModulesComponent) ends, it has
\* returned, not thrown; it called uploadPart for every part it was given except
\* those it found no chunk for, whatever happened to the other parts; and it
\* returned one receipt per part that succeeded, none for the parts that failed.
C11_EveryPartAttemptedBatchReturns ==
  lastRet.op \in {"uploadBatch", "UploadService.uploadBatch"} =>
    /\ lastRet.outcome = "returned"
    /\ lastRet.batch.attempted + lastRet.batch.noChunk = lastRet.batch.requested
    /\ lastRet.batch.receipts <= lastRet.batch.attempted
    /\ Len(lastReq.parts) >= lastRet.batch.receipts
    /\ lastRet.op = "uploadBatch" =>
         lastRet.batch.receipts + lastRet.batch.failedAll = lastRet.batch.attempted

\* C11 witness: UploadService.uploadBatch returns from a wave of two parts, both
\* sent, of which one failed: one receipt.
C11_Witness ==
  /\ lastRet.op = "UploadService.uploadBatch"
  /\ lastRet.batch.requested = 2
  /\ lastRet.batch.attempted = 2
  /\ lastRet.batch.receipts = 1

\* C11, second case reached: UploadService.uploadBatch returns from a wave in which
\* a part had no matching chunk.
C11_NoChunkReached ==
  /\ lastRet.op = "UploadService.uploadBatch"
  /\ lastRet.batch.noChunk >= 1

\* C12 (as claimed): FileUploadService.uploadPart, in either file that declares it,
\* yields a value only for a PUT response that succeeded at transport level and
\* carries a non-empty ETag header.
C12_ReceiptOnlyWithETagHeader ==
  LET hasETag == put.response.header # Null /\ put.response.header[1] # <<>>
  IN put.applied =>
       /\ put.result.ok => (put.response.ok /\ hasETag)
       /\ put.videos.ok => (put.response.ok /\ hasETag)

\* C13: for a positive size and a positive part size, splitFileIntoChunks yields
\* ceil(size / partSize) chunks numbered 1, 2, ... in order; chunk n is the range
\* [(n-1)*partSize, min(n*partSize, size)); the ranges are non-empty, each starts
\* where the one before ends, the first at 0, the last ends at size and has length
\* size - (totalParts-1)*partSize; ModulesComponent.uploadBatch slices the same
\* range for part n.
C13_ChunksPartitionTheFile ==
  LET c == chunked.chunks
      N == Len(c)
      size == chunked.size
      ps == chunked.partSizeBytes
  IN chunked.applied =>
       /\ (N - 1) * ps < size /\ size <= N * ps
       /\ \A k \in 1..N :
            /\ c[k].partNumber = k
            /\ c[k].start = (k - 1) * ps
            /\ c[k].end = IF k * ps <= size THEN k * ps ELSE size
            /\ c[k].start < c[k].end
            /\ k < N => c[k].end = c[k + 1].start
       /\ c[1].start = 0
       /\ c[N].end = size
       /\ c[N].end - c[N].start = size - (N - 1) * ps
       /\ Len(chunked.slices) = N
       /\ \A k \in 1..N :
            chunked.slices[k] = [start |-> c[k].start, end |-> c[k].end]

\* C13 witness: a file of 5 bytes split by 2 gives three chunks, the last of 1 byte.
C13_Witness ==
  /\ chunked.applied
  /\ chunked.size = 5
  /\ chunked.partSizeBytes = 2
  /\ Len(chunked.chunks) = 3
  /\ chunked.chunks[3].end - chunked.chunks[3].start = 1

\* C14 (as claimed): when the initiate response carries partSizeBytes <= 0,
\* UploadService.uploadFile ends with an error: it has no chunks, it has thrown, and
\* it has issued no wave request.
C14_NonPositivePartSizeIsAnError ==
  (svc.uploadId # 0 /\ svc.partSizeBytes <= 0) =>
    /\ svc.pc = "done"
    /\ svc.chunks = <<>>
    /\ lastReq.kind # "batch"

\* C15 (as claimed): in a run of ModulesComponent.uploadFile that the caller leaves
\* alone, no step lowers uploadState.uploadedSize.
C15_UploadedSizeNeverDecreases ==
  [][(uploadState # Null /\ uploadState' # Null) =>
       uploadState'[1].uploadedSize >= uploadState[1].uploadedSize]_vars

\* C15, the other half, which holds: uploadedSize never exceeds fileSize.
C15_UploadedSizeAtMostFileSize ==
  uploadState # Null => uploadState[1].uploadedSize <= uploadState[1].fileSize

IsPrefix(a, b) == Len(a) <= Len(b) /\ SubSeq(b, 1, Len(a)) = a

C17_OneWavePerSession ==
  /\ \A id \in Ids :
       Cardinality({i \in Ids : /\ inv[i].uploadId = id
                                /\ inv[i].pc \in {"wave0", "wave", "part", "backoff"}})
         <= 1
  /\ (lastReq.kind = "batch" /\ lastReq.src = "loop") =>
       \A i \in Ids :
         inv[i].uploadId = lastReq.uploadId => inv[i].pc \notin {"part", "backoff"}
  /\ (lastReq.kind = "batch" /\ lastReq.src = "svc") =>
       /\ lastRet.batch.unsettled = 0
       /\ svc.pc \in {"wave0", "wave"}
  /\ svc.pc = "parts" => lastReq.kind # "batch"

\* C17 witness: after pause and resume two invocations of uploadFile are inside
\* uploadBatch at the same time, each for its own session.
C17_Witness ==
  \E i, j \in Ids :
    /\ i # j
    /\ inv[i].pc = "part"
    /\ inv[j].pc = "part"
    /\ inv[i].uploadId # inv[j].uploadId
    /\ inv[i].uploadId # 0
    /\ inv[j].uploadId # 0

\* C18 (as claimed): once a wave response, the first one included, has reported
\* isComplete, uploadFile issues no further wave request: no invocation waits for
\* the response to a wave request issued inside the loop while its session has
\* every part confirmed.
C18_NoWaveRequestAfterComplete ==
  \A i \in Ids :
    inv[i].pc = "wave" =>
      srv[inv[i].uploadId].confirmed # 1..srv[inv[i].uploadId].totalParts

\* C19: in an upload that is neither paused nor aborted, whose initiate request and
\* wave requests succeed, whose remote offers unconfirmed parts again and reports
\* isComplete once every part is confirmed, and in which a part upload that keeps
\* being attempted eventually succeeds, uploadFile eventually calls completeUpload
\* and then terminates; parts that failed every attempt of an earlier wave do not
\* prevent it.  For ModulesComponent.uploadFile and UploadService.uploadFile.
C19_UploadEventuallyCompletes ==
  /\ \A i \in Ids : (inv[i].pc = "init") ~> (inv[i].pc = "complete")
  /\ \A i \in Ids : (inv[i].pc = "complete") ~> (inv[i].pc = "done")
  /\ (svc.pc = "init") ~> (svc.pc = "complete")
  /\ (svc.pc = "complete") ~> (svc.pc = "done")

\* completeUpload is called in a run in which a part failed every attempt of a wave
C19_Witness ==
  \E i \in Ids : inv[i].pc = "complete" /\ inv[i].exhausted

\* UploadService calls completeUpload after more than one wave returned receipts
C19_SvcWitness ==
  svc.pc = "complete" /\ svc.waves = 2

\* C20 (as claimed): when the time elapsed since the last observation is <= 0, no
\* progress update is emitted to the caller: every progress object UploadService.
\* uploadFile hands to onProgress was computed with timeDiff > 0.
C20_NoProgressEmittedWithoutElapsedTime ==
  svc.onProgress # Null => svc.onProgress[1].timeDiff > 0

\* C20, the part that holds: a progress computed with timeDiff <= 0 leaves
\* lastUpdateTime and lastUploadedSize as they were.
C20_TrackerUnchangedWithoutElapsedTime ==
  [][(svc'.onProgress # Null /\ svc'.onProgress[1].timeDiff <= 0 /\ svc' # svc
        /\ svc.pc = "wave")
       => /\ svc'.lastUpdateTime = svc.lastUpdateTime
          /\ svc'.lastUploadedSize = svc.lastUploadedSize]_vars

\* C21: whenever a progress computation finds a speed of 0 (byte delta 0) or a
\* negative byte delta, the timeRemaining it reports is "Calculating..."; a numeric
\* duration is reported only when the speed is strictly positive and the remaining
\* size is non-negative.  For UploadService.calculateProgress and for
\* UploadProgressComponent.updateProgress with their formatTimeRemaining.
C21_NoDurationWithoutPositiveSpeed ==
  \A o \in {tracker.observed, tracker.view.observed} :
    (o.applied /\ o.timeDiff > 0) =>
      /\ o.sizeDiff <= 0 => o.timeRemaining.form = "Calculating..."
      /\ o.timeRemaining.form # "Calculating..." =>
           (o.sizeDiff > 0 /\ o.remainingSize >= 0)

\* C21, the part that holds: a speed of exactly 0 gives "Calculating...", and so
\* does a positive speed with a negative remaining size.
C21_ZeroSpeedIsCalculating ==
  \A o \in {tracker.observed, tracker.view.observed} :
    (o.applied /\ o.timeDiff > 0) =>
      /\ o.sizeDiff = 0 => o.timeRemaining.form = "Calculating..."
      /\ (o.sizeDiff > 0 /\ o.remainingSize < 0) =>
           o.timeRemaining.form = "Calculating..."
      /\ (o.sizeDiff < 0 /\ o.remainingSize > 0) =>
           o.timeRemaining.form = "Calculating..."

\* C22: in an invocation of ModulesComponent.uploadFile the first wave request
\* carries an empty receipt list; the wave request sent when uploadBatch returns
\* carries the list of the previous wave request followed by the receipts of the
\* wave that just ended, so the k-th request holds the receipts of waves 1..k-1 in
\* wave order; it lacks no part the remote has a receipt for.
C22_WaveRequestCarriesAllEarlierReceipts ==
  [][\A i \in Ids :
       /\ (inv[i].pc = "init" /\ inv'[i].pc = "wave0") =>
            (lastReq'.kind = "batch" /\ lastReq'.inv = i /\ lastReq'.parts = <<>>)
       /\ (inv[i].pc \in {"wave0", "wave"} /\ inv'[i].pc \in {"part", "backoff"}) =>
            /\ inv[i].pc = "wave0" => inv[i].allUploadedETags = <<>>
            /\ (lastReq.kind = "batch" /\ lastReq.inv = i) =>
                 lastReq.parts = inv[i].allUploadedETags
       /\ (inv[i].pc \in {"wave0", "wave", "part", "backoff"}
             /\ inv'[i].pc \in {"part", "backoff"}) =>
            inv'[i].allUploadedETags = inv[i].allUploadedETags
       /\ (inv[i].pc \in {"wave0", "part", "backoff"} /\ inv'[i].pc = "wave") =>
            /\ lastReq'.kind = "batch" /\ lastReq'.inv = i
            /\ lastReq'.uploadId = inv[i].uploadId
            /\ IsPrefix(inv[i].allUploadedETags \o inv[i].currentBatchETags,
                        lastReq'.parts)
            /\ Len(lastReq'.parts)
                 = Len(inv[i].allUploadedETags) + lastRet'.batch.receipts
            /\ srv[inv[i].uploadId].confirmed \subseteq PartNumbers(lastReq'.parts)]_vars

\* C22 witness: the third wave request of a run is in flight and carries the
\* receipt of the first wave (part 2) followed by that of the second (part 1).
C22_Witness ==
  \E i \in Ids :
    /\ inv[i].pc = "wave"
    /\ lastReq.kind = "batch" /\ lastReq.inv = i
    /\ Len(lastReq.parts) = 2
    /\ lastReq.parts[1].partNumber = 2
    /\ lastReq.parts[2].partNumber = 1
    /\ srv[inv[i].uploadId].confirmed = {2}

\* C23: in ModulesComponent.uploadBatch the first attempt of a part is made without
\* a wait; the retry after the k-th failed attempt (k = 1, 2) is made after a wait
\* of min(1000 * 2^k, 10000) ms, that is 2000 and 4000 ms; no wait exceeds 10000 ms,
\* and no wait is made after the third failed attempt.
C23_BackoffBeforeEachRetry ==
  \A i \in Ids :
    /\ inv[i].pc = "part" =>
         /\ inv[i].retryCount = 0 => inv[i].delay = 0
         /\ inv[i].retryCount = 1 => inv[i].delay = 2000
         /\ inv[i].retryCount = 2 => inv[i].delay = 4000
         /\ inv[i].retryCount \in 0..2
    /\ inv[i].pc = "backoff" =>
         /\ inv[i].retryCount \in {1, 2}
         /\ inv[i].delay = Min(1000 * 2^(inv[i].retryCount), 10000)
    /\ inv[i].delay <= 10000

\* C23 witness: the third attempt of a part is under way, after a wait of 4000 ms
C23_Witness ==
  \E i \in Ids : inv[i].pc = "part" /\ inv[i].retryCount = 2 /\ inv[i].delay = 4000

\* C24: an invocation of ModulesComponent.uploadFile calls completeUpload at most
\* once, and only in the step that receives a wave response with isComplete = true
\* while isPaused is false; an invocation that ends because of a pause ends without
\* calling completeUpload and leaves selectedFile, uploadState, uploading and
\* isPaused as they are.
C24_CompleteOnceAndNotWhenPaused ==
  [][\A i \in Ids :
       /\ (inv[i].pc # "complete" /\ inv'[i].pc = "complete") =>
            /\ inv[i].pc = "wave"
            /\ srv'[inv[i].uploadId].confirmed = 1..srv'[inv[i].uploadId].totalParts
            /\ ~isPaused /\ ~isPaused'
            /\ lastReq'.kind = "complete" /\ lastReq'.inv = i
       /\ inv[i].pc = "complete" => inv'[i].pc \in {"complete", "abort", "done"}
       /\ inv[i].pc \in {"abort", "done"} => inv'[i].pc \in {"abort", "done"}
       /\ (lastReq'.kind = "complete" /\ lastReq'.inv = i /\ lastReq'.src = "loop") =>
            inv'[i].pc = "complete"
       /\ (inv[i].pc # "done" /\ inv'[i].pc = "done" /\ lastRet'.outcome = "paused") =>
            /\ inv[i].pc \in {"wave0", "wave"}
            /\ isPaused /\ isPaused'
            /\ lastReq'.kind # "complete"
            /\ selectedFile' = selectedFile /\ uploadState' = uploadState
            /\ uploading' = uploading]_vars

\* C24 witness: an invocation has ended because of a pause right after the wave
\* response that reported the session complete: no completeUpload, state kept.
C24_Witness ==
  /\ lastRet.op = "uploadFile" /\ lastRet.outcome = "paused" /\ ~lastRet.failed
  /\ isPaused /\ uploadState # Null /\ CurrentId # 0
  /\ srv[CurrentId].confirmed = 1..srv[CurrentId].totalParts
  /\ lastReq.kind # "complete"

\* C25 (as claimed): every receipt FileUploadService.uploadPart (file-upload.
\* service.ts) produces has a non-empty etag, whatever ETag header the response
\* carries, a header of two quote characters included.
C25_ReceiptETagNonEmpty ==
  (put.applied /\ put.result.ok) => put.result.etag # <<>>

\* C25 (as claimed), the consequence: no wave request and no finalize call of
\* ModulesComponent.uploadFile carries a receipt with an empty etag.
C25_NoEmptyETagSent ==
  lastReq.kind \in {"batch", "complete"} =>
    \A k \in 1..Len(lastReq.parts) : lastReq.parts[k].etag # <<>>

\* C25, the part that holds: uploadPart produces an empty etag for no other header
\* than the pair of quote characters.
C25_EmptyETagOnlyFromQuotesOnly ==
  (put.applied /\ put.result.ok /\ put.response.header # QuotesOnly) =>
    put.result.etag # <<>>
====
